---- MODULE Spec2Model ----
(***************************************************************************)
(* State-machine model of the stocksage-india Angular client:              *)
(*   - AuthService (token store, published session, logout),               *)
(*   - FOAnalysisComponent (snapshot filter engine, tab loads),            *)
(*   - StockComparisonComponent (comparison, debounced autocomplete),      *)
(*   - AnnouncementsComponent (NSE/BSE loads).                             *)
(* One routed component is mounted at a time (variable view); its fields   *)
(* loading, error and activeTab are the mounted component's fields.        *)
(* HTTP requests are non-blocking: issuing one appends a record to         *)
(* inflight, and its completion is a separate step that may deliver any    *)
(* in-flight request, in any order.                                        *)
(***************************************************************************)
EXTENDS Integers, Sequences, FiniteSets, TLC

VARIABLES
    view,              \* the routed component that is mounted
    loading, error, activeTab,
    niftyData, futuresData, optionsData,
    uniqueSymbols, uniqueExpiries, selectedSymbol, selectedExpiry,
    filteredFutures, filteredOptions,
    nseSymbol, nseAnnouncements, bseAnnouncements, bseScripCodes,
    date1, date2, comparison, availableSymbols,
    symbols, suggestions, showSuggestions,
    now,               \* the event loop's clock, in ms
    debounceValue,     \* debounceTime: the value waiting to be emitted
    debounceAt,        \* debounceTime: when that value was received
    lastQuery,         \* distinctUntilChanged: the last value passed on
    hideTimers,        \* setTimeout of hideSuggestions: the times they are due
    focused,           \* the symbols input has the focus
    pressed,           \* the suggestion under a mouse button that is down,
                       \* with the time of the press and whether it blurred the input
    keys,              \* history: the input events, each with its time
    issued,            \* history: the suggestion requests, each with its time
    token, currentUser, navigated,
    inflight,          \* HTTP requests issued and not yet completed
    lastOp             \* the handler that ran last, with what it was given

compVars == <<loading, error, activeTab>>
foVars   == <<niftyData, futuresData, optionsData, uniqueSymbols, uniqueExpiries,
              selectedSymbol, selectedExpiry, filteredFutures, filteredOptions>>
annVars  == <<nseSymbol, nseAnnouncements, bseAnnouncements, bseScripCodes>>
cmpVars  == <<date1, date2, comparison, availableSymbols>>
autoVars == <<symbols, suggestions, showSuggestions, now, debounceValue,
              debounceAt, lastQuery, hideTimers, focused, pressed, keys, issued>>
authVars == <<token, currentUser, navigated>>
vars     == <<view, compVars, foVars, annVars, cmpVars, autoVars, authVars,
              inflight, lastOp>>

(***************************************************************************)
(* Bounds of the model.                                                    *)
(***************************************************************************)
MaxRows     == 2    \* rows of one snapshot, futures and options together
MaxInFlight == 2    \* requests in flight at once
MaxKeys     == 2    \* input events in the symbols field
MaxTicks    == 9    \* clock ticks

(***************************************************************************)
(* JavaScript values.                                                      *)
(***************************************************************************)
Null  == "null"
Undef == "undefined"
Truthy(v) == v # Undef /\ v # Null /\ v # ""

SeqUpTo(S, n) == UNION {[1..k -> S] : k \in 0..n}
Includes(s, x) == \E i \in 1..Len(s) : s[i] = x
RemoveAt(s, i) == SubSeq(s, 1, i - 1) \o SubSeq(s, i + 1, Len(s))

\* [...new Set(s)]: the distinct elements in order of first occurrence
RECURSIVE SetOrder(_, _)
SetOrder(s, acc) ==
    IF s = <<>> THEN acc
    ELSE SetOrder(Tail(s), IF Includes(acc, Head(s)) THEN acc ELSE Append(acc, Head(s)))

\* Array.prototype.sort is stable: x goes after the elements that do not
\* compare greater than it
RECURSIVE InsertByKey(_, _, _)
InsertByKey(x, s, key) ==
    IF s = <<>> THEN <<x>>
    ELSE IF key[x] < key[Head(s)] THEN <<x>> \o s
    ELSE <<Head(s)>> \o InsertByKey(x, Tail(s), key)

RECURSIVE SortByKey(_, _)
SortByKey(s, key) ==
    IF s = <<>> THEN <<>>
    ELSE InsertByKey(s[Len(s)], SortByKey(SubSeq(s, 1, Len(s) - 1), key), key)

(***************************************************************************)
(* HTTP errors: status 0 is a transport failure (no response body).        *)
(***************************************************************************)
HttpErrors ==
    { [status |-> 0,   detail |-> Undef],
      [status |-> 401, detail |-> "Not authenticated"],
      [status |-> 500, detail |-> Undef],
      [status |-> 500, detail |-> "boom"] }

\* err.error?.detail || fallback
ErrorMessage(err, fallback) == IF Truthy(err.detail) THEN err.detail ELSE fallback

\* prev: the result data the component displayed when the request was issued
Request(api, q, prev) == [api |-> api, q |-> q, prev |-> prev]

\* what lastOp records: the handler, its argument, the HTTP status it was given
Op(op, arg, status) ==
    [op |-> op, arg |-> arg, status |-> status, detail |-> Undef, prev |-> <<>>,
     data |-> <<>>]

\* what lastOp records when the completion of request req is handled
Done(op, req, status, detail) ==
    [op |-> op, arg |-> req.q, status |-> status, detail |-> detail, prev |-> req.prev,
     data |-> <<>>]

\* what lastOp records when the next callback of request req is given data
Received(op, req, data) == [Done(op, req, 200, Undef) EXCEPT !.data = <<data>>]

\* a nullable object field: <<>> is null, <<d>> holds d
NoData == <<>>
Some(d) == <<d>>

(***************************************************************************)
(* F&O snapshot rows.                                                      *)
(***************************************************************************)
Expiries == {"28-Mar-2024", "04-Apr-2024"}

\* new Date(x).getTime(), as a day count
DateValue == [x \in Expiries |-> IF x = "28-Mar-2024" THEN 19810 ELSE 19817]

\* the order of the default sort (by UTF-16 code units) on the symbols used
CodeUnitOrder ==
    [s \in {"ACC", "BANKNIFTY", "NIFTY", "ZEEL"} |->
        IF s = "ACC" THEN 1 ELSE IF s = "BANKNIFTY" THEN 2
        ELSE IF s = "NIFTY" THEN 3 ELSE 4]

Row(t, u, x) == [TckrSymb |-> t, UndrlygVal |-> u, XpryDt |-> x]

Rows ==
    { Row("NIFTY", Undef, "28-Mar-2024"),
      Row("NIFTY", Undef, "04-Apr-2024"),
      Row("ACC", "NIFTY", "28-Mar-2024"),
      Row(Undef, "BANKNIFTY", "04-Apr-2024"),
      Row("ZEEL", Undef, "28-Mar-2024"),
      Row(Undef, Undef, "28-Mar-2024") }

Snapshots ==
    { [futures |-> f, options |-> o] :
        f \in SeqUpTo(Rows, MaxRows), o \in SeqUpTo(Rows, MaxRows) }

NiftyPayloads == { d \in Snapshots : Len(d.futures) + Len(d.options) <= MaxRows }

AllItems(data) == data.futures \o data.options

\* item.TckrSymb || item.UndrlygVal || ''
ItemSymbol(item) ==
    IF Truthy(item.TckrSymb) THEN item.TckrSymb
    ELSE IF Truthy(item.UndrlygVal) THEN item.UndrlygVal
    ELSE ""

MapSymbols(items) == [i \in 1..Len(items) |-> ItemSymbol(items[i])]

ExtractUniqueSymbols(data) ==
    SortByKey(SelectSeq(SetOrder(MapSymbols(AllItems(data)), <<>>), Truthy), CodeUnitOrder)

\* faulty variant of DefaultSymbol: no index is preferred
DefaultSymbolNoPriority(sel, uniq) ==
    IF ~Truthy(sel) \/ ~Includes(uniq, sel)
    THEN IF Len(uniq) > 0 THEN uniq[1] ELSE ""
    ELSE sel

\* the selection kept if valid, else NIFTY, BANKNIFTY, the first symbol
DefaultSymbol(sel, uniq) ==
    IF ~Truthy(sel) \/ ~Includes(uniq, sel)
    THEN IF Includes(uniq, "NIFTY") THEN "NIFTY"
         ELSE IF Includes(uniq, "BANKNIFTY") THEN "BANKNIFTY"
         ELSE IF Len(uniq) > 0 THEN uniq[1] ELSE ""
    ELSE sel

MatchSymbol(item, sel) == item.TckrSymb = sel \/ item.UndrlygVal = sel

SymbolItems(data, sel) ==
    LET Match(item) == MatchSymbol(item, sel) IN SelectSeq(AllItems(data), Match)

MapExpiries(items) == [i \in 1..Len(items) |-> items[i].XpryDt]

ExpiriesForSymbol(data, sel) ==
    SortByKey(SelectSeq(SetOrder(MapExpiries(SymbolItems(data, sel)), <<>>), Truthy), DateValue)

DefaultExpiry(selX, uniq) ==
    IF ~Truthy(selX) \/ ~Includes(uniq, selX)
    THEN IF Len(uniq) > 0 THEN uniq[1] ELSE ""
    ELSE selX

FilterItems(items, sel, selX) ==
    LET Keep(item) == MatchSymbol(item, sel) /\ item.XpryDt = selX
    IN SelectSeq(items, Keep)

\* resetFilters
resetFilters ==
    /\ uniqueSymbols' = <<>>
    /\ uniqueExpiries' = <<>>
    /\ filteredFutures' = <<>>
    /\ filteredOptions' = <<>>

\* updateExpiriesForSymbol followed by applyFilters, on snapshot data with
\* the symbol selection sel
updateAndApply(data, sel) ==
    LET exps == ExpiriesForSymbol(data, sel)
        selX == DefaultExpiry(selectedExpiry, exps)
    IN /\ uniqueExpiries' = exps
       /\ selectedExpiry' = selX
       /\ filteredFutures' = FilterItems(data.futures, sel, selX)
       /\ filteredOptions' = FilterItems(data.options, sel, selX)

processNiftyDataForFiltering(data) ==
    IF Len(AllItems(data)) = 0
    THEN /\ resetFilters
         /\ UNCHANGED <<selectedSymbol, selectedExpiry>>
    ELSE LET uniq == ExtractUniqueSymbols(data)
             sel  == DefaultSymbol(selectedSymbol, uniq)
         IN /\ uniqueSymbols' = uniq
            /\ selectedSymbol' = sel
            /\ updateAndApply(data, sel)

(***************************************************************************)
(* FOAnalysisComponent.                                                    *)
(***************************************************************************)
CanIssue == Len(inflight) < MaxInFlight

\* the three assignments and the request that open every load of the
\* F&O and announcements components
StartLoad(api, prev) ==
    /\ loading' = TRUE
    /\ error' = Null
    /\ inflight' = Append(inflight, Request(api, "", prev))

loadNiftyData   == StartLoad("nifty", <<>>)
loadFuturesData == StartLoad("futures", futuresData)
loadOptionsData == StartLoad("options", optionsData)

refresh ==
    /\ view = "fo"
    /\ CanIssue
    /\ CASE activeTab = "nifty"   -> loadNiftyData
         [] activeTab = "futures" -> loadFuturesData
         [] activeTab = "options" -> loadOptionsData
    /\ lastOp' = Op("refresh", activeTab, 0)
    /\ UNCHANGED <<view, activeTab, foVars, annVars, cmpVars, autoVars, authVars>>

foOnTabChange(tab) ==
    /\ view = "fo"
    /\ CanIssue
    /\ activeTab' = tab
    /\ CASE tab = "nifty" ->
              IF niftyData = NoData THEN loadNiftyData
              ELSE error' = Null /\ UNCHANGED <<loading, inflight>>
         [] tab = "futures" -> loadFuturesData
         [] tab = "options" -> loadOptionsData
    /\ lastOp' = Op("onTabChange", tab, 0)
    /\ UNCHANGED <<view, foVars, annVars, cmpVars, autoVars, authVars>>

niftyNext(i, data) ==
    /\ view = "fo"
    /\ i \in 1..Len(inflight) /\ inflight[i].api = "nifty"
    /\ inflight' = RemoveAt(inflight, i)
    /\ niftyData' = Some(data)
    /\ processNiftyDataForFiltering(data)
    /\ loading' = FALSE
    /\ lastOp' = Done("niftyNext", inflight[i], 200, Undef)
    /\ UNCHANGED <<view, error, activeTab, futuresData, optionsData,
                   annVars, cmpVars, autoVars, authVars>>

niftyError(i, err) ==
    /\ view = "fo"
    /\ i \in 1..Len(inflight) /\ inflight[i].api = "nifty"
    /\ inflight' = RemoveAt(inflight, i)
    /\ error' = ErrorMessage(err, "Failed to load NIFTY data")
    /\ loading' = FALSE
    /\ resetFilters
    /\ lastOp' = Done("niftyError", inflight[i], err.status, err.detail)
    /\ UNCHANGED <<view, activeTab, niftyData, futuresData, optionsData,
                   selectedSymbol, selectedExpiry,
                   annVars, cmpVars, autoVars, authVars>>

\* the symbol <select> offers uniqueSymbols; ngModel stores the choice in
\* selectedSymbol before onSymbolChange runs
onSymbolChange(s) ==
    /\ view = "fo"
    /\ Includes(uniqueSymbols, s)
    /\ selectedSymbol' = s
    /\ IF niftyData = NoData
       THEN UNCHANGED <<uniqueExpiries, selectedExpiry, filteredFutures, filteredOptions>>
       ELSE updateAndApply(niftyData[1], s)
    /\ lastOp' = Op("onSymbolChange", s, 0)
    /\ UNCHANGED <<view, compVars, niftyData, futuresData, optionsData, uniqueSymbols,
                   annVars, cmpVars, autoVars, authVars, inflight>>

\* the expiry <select> offers uniqueExpiries; applyFilters
onExpiryChange(x) ==
    /\ view = "fo"
    /\ Includes(uniqueExpiries, x)
    /\ selectedExpiry' = x
    /\ IF niftyData = NoData
       THEN UNCHANGED <<filteredFutures, filteredOptions>>
       ELSE /\ filteredFutures' = FilterItems(niftyData[1].futures, selectedSymbol, x)
            /\ filteredOptions' = FilterItems(niftyData[1].options, selectedSymbol, x)
    /\ lastOp' = Op("onExpiryChange", x, 0)
    /\ UNCHANGED <<view, compVars, niftyData, futuresData, optionsData, uniqueSymbols,
                   uniqueExpiries, selectedSymbol,
                   annVars, cmpVars, autoVars, authVars, inflight>>

(***************************************************************************)
(* Field initialisers of the components and of the service.                *)
(***************************************************************************)
FOFields ==
    /\ niftyData = NoData /\ futuresData = <<>> /\ optionsData = <<>>
    /\ uniqueSymbols = <<>> /\ uniqueExpiries = <<>>
    /\ selectedSymbol = "NIFTY" /\ selectedExpiry = ""
    /\ filteredFutures = <<>> /\ filteredOptions = <<>>

AnnFields ==
    /\ nseSymbol = "RELIANCE" /\ nseAnnouncements = <<>>
    /\ bseAnnouncements = <<>> /\ bseScripCodes = <<>>

CmpFields == date1 = "" /\ date2 = "" /\ comparison = Null /\ availableSymbols = <<>>

AutoFields ==
    /\ symbols = <<>> /\ suggestions = <<>> /\ showSuggestions = FALSE
    /\ now = 0 /\ debounceValue = NoData /\ debounceAt = 0 /\ lastQuery = NoData
    /\ hideTimers = {} /\ focused = FALSE /\ pressed = NoData
    /\ keys = <<>> /\ issued = <<>>

\* the session of a user who signed in and then opened one of the data
\* views (the routes are guarded): credential stored, session published
SessionEstablished == token = "tokA" /\ currentUser = "userA" /\ navigated = "/dashboard"

\* FOAnalysisComponent created on the /fo route: ngOnInit has called
\* loadNiftyData
InitFO ==
    /\ view = "fo"
    /\ activeTab = "nifty" /\ loading = TRUE /\ error = Null
    /\ inflight = <<Request("nifty", "", <<>>)>>
    /\ FOFields /\ AnnFields /\ CmpFields /\ AutoFields /\ SessionEstablished
    /\ lastOp = Op("ngOnInit", "", 0)

NextFO ==
    \/ refresh
    \/ \E i \in 1..MaxInFlight, data \in NiftyPayloads : niftyNext(i, data)
    \/ \E i \in 1..MaxInFlight, err \in HttpErrors : niftyError(i, err)
    \/ \E s \in DOMAIN CodeUnitOrder : onSymbolChange(s)
    \/ \E x \in Expiries : onExpiryChange(x)

SpecFO == InitFO /\ [][NextFO]_vars

\* the snapshots served to the filter engine alone: futures rows only, one
\* kind of row for each symbol
SymbolPayloads ==
    { d \in NiftyPayloads :
        /\ d.options = <<>>
        /\ \A i \in 1..Len(d.futures) : d.futures[i] # Row("NIFTY", Undef, "04-Apr-2024") }

\* the filter engine alone: every snapshot fetch succeeds
NextFilter ==
    \/ refresh
    \/ \E i \in 1..MaxInFlight, data \in SymbolPayloads : niftyNext(i, data)
    \/ \E s \in DOMAIN CodeUnitOrder : onSymbolChange(s)
    \/ \E x \in Expiries : onExpiryChange(x)

SpecFilter == InitFO /\ [][NextFilter]_vars

(***************************************************************************)
(* FOAnalysisComponent: the futures and options tabs.                      *)
(***************************************************************************)
\* what a list endpoint may return
Payloads == { <<>>, <<"a1">>, <<"a2">> }

futuresNext(i, data) ==
    /\ view = "fo"
    /\ i \in 1..Len(inflight) /\ inflight[i].api = "futures"
    /\ inflight' = RemoveAt(inflight, i)
    /\ futuresData' = data
    /\ loading' = FALSE
    /\ lastOp' = Done("futuresNext", inflight[i], 200, Undef)
    /\ UNCHANGED <<view, error, activeTab, niftyData, optionsData, uniqueSymbols,
                   uniqueExpiries, selectedSymbol, selectedExpiry, filteredFutures,
                   filteredOptions, annVars, cmpVars, autoVars, authVars>>

\* faulty variant of FailLoad: the error detail of the response is ignored
FailLoadNoDetail(i, err, fallback) ==
    /\ inflight' = RemoveAt(inflight, i)
    /\ error' = fallback
    /\ loading' = FALSE

\* the error callback shared by the loads that only report the failure
FailLoad(i, err, fallback) ==
    /\ inflight' = RemoveAt(inflight, i)
    /\ error' = ErrorMessage(err, fallback)
    /\ loading' = FALSE

futuresError(i, err) ==
    /\ view = "fo"
    /\ i \in 1..Len(inflight) /\ inflight[i].api = "futures"
    /\ FailLoad(i, err, "Failed to load futures data")
    /\ lastOp' = Done("futuresError", inflight[i], err.status, err.detail)
    /\ UNCHANGED <<view, activeTab, foVars, annVars, cmpVars, autoVars, authVars>>

optionsNext(i, data) ==
    /\ view = "fo"
    /\ i \in 1..Len(inflight) /\ inflight[i].api = "options"
    /\ inflight' = RemoveAt(inflight, i)
    /\ optionsData' = data
    /\ loading' = FALSE
    /\ lastOp' = Done("optionsNext", inflight[i], 200, Undef)
    /\ UNCHANGED <<view, error, activeTab, niftyData, futuresData, uniqueSymbols,
                   uniqueExpiries, selectedSymbol, selectedExpiry, filteredFutures,
                   filteredOptions, annVars, cmpVars, autoVars, authVars>>

optionsError(i, err) ==
    /\ view = "fo"
    /\ i \in 1..Len(inflight) /\ inflight[i].api = "options"
    /\ FailLoad(i, err, "Failed to load options data")
    /\ lastOp' = Done("optionsError", inflight[i], err.status, err.detail)
    /\ UNCHANGED <<view, activeTab, foVars, annVars, cmpVars, autoVars, authVars>>

(***************************************************************************)
(* AnnouncementsComponent.                                                 *)
(***************************************************************************)
PopularSymbols == {"RELIANCE", "TCS"}

loadNSEAnnouncements == StartLoad("nse", nseAnnouncements)
loadBSEAnnouncements == StartLoad("bse", bseAnnouncements)

\* the search buttons of the two tabs call the loads directly
searchNSE ==
    /\ view = "announcements"
    /\ CanIssue
    /\ loadNSEAnnouncements
    /\ lastOp' = Op("loadNSEAnnouncements", "", 0)
    /\ UNCHANGED <<view, activeTab, foVars, annVars, cmpVars, autoVars, authVars>>

searchBSE ==
    /\ view = "announcements"
    /\ CanIssue
    /\ loadBSEAnnouncements
    /\ lastOp' = Op("loadBSEAnnouncements", "", 0)
    /\ UNCHANGED <<view, activeTab, foVars, annVars, cmpVars, autoVars, authVars>>

selectSymbol(sym) ==
    /\ view = "announcements"
    /\ CanIssue
    /\ nseSymbol' = sym
    /\ loadNSEAnnouncements
    /\ lastOp' = Op("selectSymbol", sym, 0)
    /\ UNCHANGED <<view, activeTab, foVars, nseAnnouncements, bseAnnouncements,
                   bseScripCodes, cmpVars, autoVars, authVars>>

annOnTabChange(tab) ==
    /\ view = "announcements"
    /\ CanIssue
    /\ activeTab' = tab
    /\ IF tab = "nse" /\ Len(nseAnnouncements) = 0 THEN loadNSEAnnouncements
       ELSE IF tab = "bse" /\ Len(bseAnnouncements) = 0 THEN loadBSEAnnouncements
       ELSE error' = Null /\ UNCHANGED <<loading, inflight>>
    /\ lastOp' = Op("onTabChange", tab, 0)
    /\ UNCHANGED <<view, foVars, annVars, cmpVars, autoVars, authVars>>

nseNext(i, data) ==
    /\ view = "announcements"
    /\ i \in 1..Len(inflight) /\ inflight[i].api = "nse"
    /\ inflight' = RemoveAt(inflight, i)
    /\ nseAnnouncements' = data
    /\ loading' = FALSE
    /\ lastOp' = Done("nseNext", inflight[i], 200, Undef)
    /\ UNCHANGED <<view, error, activeTab, foVars, nseSymbol, bseAnnouncements,
                   bseScripCodes, cmpVars, autoVars, authVars>>

nseError(i, err) ==
    /\ view = "announcements"
    /\ i \in 1..Len(inflight) /\ inflight[i].api = "nse"
    /\ FailLoad(i, err, "Failed to load NSE announcements")
    /\ lastOp' = Done("nseError", inflight[i], err.status, err.detail)
    /\ UNCHANGED <<view, activeTab, foVars, annVars, cmpVars, autoVars, authVars>>

bseNext(i, data) ==
    /\ view = "announcements"
    /\ i \in 1..Len(inflight) /\ inflight[i].api = "bse"
    /\ inflight' = RemoveAt(inflight, i)
    /\ bseAnnouncements' = data
    /\ loading' = FALSE
    /\ lastOp' = Done("bseNext", inflight[i], 200, Undef)
    /\ UNCHANGED <<view, error, activeTab, foVars, nseSymbol, nseAnnouncements,
                   bseScripCodes, cmpVars, autoVars, authVars>>

bseError(i, err) ==
    /\ view = "announcements"
    /\ i \in 1..Len(inflight) /\ inflight[i].api = "bse"
    /\ FailLoad(i, err, "Failed to load BSE announcements")
    /\ lastOp' = Done("bseError", inflight[i], err.status, err.detail)
    /\ UNCHANGED <<view, activeTab, foVars, annVars, cmpVars, autoVars, authVars>>

\* loadBSEScripCodes: the list is stored on success, a failure is only logged
scripCodesDone(i, ok) ==
    /\ view = "announcements"
    /\ i \in 1..Len(inflight) /\ inflight[i].api = "scrip-codes"
    /\ inflight' = RemoveAt(inflight, i)
    /\ bseScripCodes' = IF ok THEN <<"500325">> ELSE bseScripCodes
    /\ lastOp' = Done("scripCodesDone", inflight[i], IF ok THEN 200 ELSE 500, Undef)
    /\ UNCHANGED <<view, compVars, foVars, nseSymbol, nseAnnouncements,
                   bseAnnouncements, cmpVars, autoVars, authVars>>

(***************************************************************************)
(* StockComparisonComponent: the comparison.                               *)
(***************************************************************************)
Dates == {"", "2024-03-27", "2024-03-28"}
Comparisons == {"cmpA", "cmpB"}

\* the two date inputs are bound to date1 and date2
setDate1(d) ==
    /\ view = "stocks"
    /\ date1' = d
    /\ lastOp' = Op("setDate1", d, 0)
    /\ UNCHANGED <<view, compVars, foVars, annVars, date2, comparison,
                   availableSymbols, autoVars, authVars, inflight>>

setDate2(d) ==
    /\ view = "stocks"
    /\ date2' = d
    /\ lastOp' = Op("setDate2", d, 0)
    /\ UNCHANGED <<view, compVars, foVars, annVars, date1, comparison,
                   availableSymbols, autoVars, authVars, inflight>>

\* faulty variant of DatesMissing: only the first date is validated
DatesMissingFirstOnly(d1, d2) == ~Truthy(d1)

\* !this.date1 || !this.date2
DatesMissing(d1, d2) == ~Truthy(d1) \/ ~Truthy(d2)

compareStocks ==
    /\ view = "stocks"
    /\ IF DatesMissing(date1, date2)
       THEN /\ error' = "Please select both dates"
            /\ UNCHANGED <<loading, comparison, inflight>>
       ELSE /\ CanIssue
            /\ loading' = TRUE
            /\ error' = Null
            /\ comparison' = Null
            /\ inflight' = Append(inflight, Request("compare", "", <<comparison>>))
    /\ lastOp' = Op("compareStocks", "", 0)
    /\ UNCHANGED <<view, activeTab, foVars, annVars, date1, date2, availableSymbols,
                   autoVars, authVars>>

compareNext(i, data) ==
    /\ view = "stocks"
    /\ i \in 1..Len(inflight) /\ inflight[i].api = "compare"
    /\ inflight' = RemoveAt(inflight, i)
    /\ comparison' = data
    /\ loading' = FALSE
    /\ lastOp' = Received("compareNext", inflight[i], data)
    /\ UNCHANGED <<view, error, activeTab, foVars, annVars, date1, date2,
                   availableSymbols, autoVars, authVars>>

compareError(i, err) ==
    /\ view = "stocks"
    /\ i \in 1..Len(inflight) /\ inflight[i].api = "compare"
    /\ FailLoad(i, err, "Failed to fetch comparison data")
    /\ lastOp' = Done("compareError", inflight[i], err.status, err.detail)
    /\ UNCHANGED <<view, activeTab, foVars, annVars, cmpVars, autoVars, authVars>>

\* loadSymbols: the list is stored on success, a failure is only logged
symbolsDone(i, ok) ==
    /\ view = "stocks"
    /\ i \in 1..Len(inflight) /\ inflight[i].api = "symbols"
    /\ inflight' = RemoveAt(inflight, i)
    /\ availableSymbols' = IF ok THEN <<"RELIANCE", "TCS">> ELSE availableSymbols
    /\ lastOp' = Done("symbolsDone", inflight[i], IF ok THEN 200 ELSE 500, Undef)
    /\ UNCHANGED <<view, compVars, foVars, annVars, date1, date2, comparison,
                   autoVars, authVars>>

(***************************************************************************)
(* The three data views, each as its route creates it.                     *)
(***************************************************************************)
\* AnnouncementsComponent created: ngOnInit has called loadNSEAnnouncements
\* and loadBSEScripCodes
InitAnn ==
    /\ view = "announcements"
    /\ activeTab = "nse" /\ loading = TRUE /\ error = Null
    /\ inflight = <<Request("nse", "", <<>>), Request("scrip-codes", "", <<>>)>>
    /\ FOFields /\ AnnFields /\ CmpFields /\ AutoFields /\ SessionEstablished
    /\ lastOp = Op("ngOnInit", "", 0)

\* StockComparisonComponent created: ngOnInit has set the default dates,
\* called loadSymbols and subscribed to the search subject
InitStocks ==
    /\ view = "stocks"
    /\ activeTab = "all" /\ loading = FALSE /\ error = Null
    /\ inflight = <<Request("symbols", "", <<>>)>>
    /\ date1 = "2024-03-27" /\ date2 = "2024-03-28"
    /\ comparison = Null /\ availableSymbols = <<>>
    /\ FOFields /\ AnnFields /\ AutoFields /\ SessionEstablished
    /\ lastOp = Op("ngOnInit", "", 0)

\* the snapshots served in the specification of the three data views
SmallNiftyPayloads == { d \in NiftyPayloads : Len(d.futures) <= 1 /\ d.options = <<>> }

InitData == InitFO \/ InitAnn \/ InitStocks

NextData ==
    \/ refresh
    \/ \E tab \in {"nifty", "futures", "options"} : foOnTabChange(tab)
    \/ \E i \in 1..MaxInFlight, data \in SmallNiftyPayloads : niftyNext(i, data)
    \/ \E i \in 1..MaxInFlight, err \in HttpErrors : niftyError(i, err)
    \/ \E i \in 1..MaxInFlight, data \in Payloads : futuresNext(i, data)
    \/ \E i \in 1..MaxInFlight, err \in HttpErrors : futuresError(i, err)
    \/ \E i \in 1..MaxInFlight, data \in Payloads : optionsNext(i, data)
    \/ \E i \in 1..MaxInFlight, err \in HttpErrors : optionsError(i, err)
    \/ searchNSE
    \/ searchBSE
    \/ \E sym \in PopularSymbols : selectSymbol(sym)
    \/ \E tab \in {"nse", "bse"} : annOnTabChange(tab)
    \/ \E i \in 1..MaxInFlight, data \in Payloads : nseNext(i, data)
    \/ \E i \in 1..MaxInFlight, err \in HttpErrors : nseError(i, err)
    \/ \E i \in 1..MaxInFlight, data \in Payloads : bseNext(i, data)
    \/ \E i \in 1..MaxInFlight, err \in HttpErrors : bseError(i, err)
    \/ \E i \in 1..MaxInFlight, ok \in BOOLEAN : scripCodesDone(i, ok)
    \/ \E d \in Dates : setDate1(d)
    \/ \E d \in Dates : setDate2(d)
    \/ compareStocks
    \/ \E i \in 1..MaxInFlight, data \in Comparisons : compareNext(i, data)
    \/ \E i \in 1..MaxInFlight, err \in HttpErrors : compareError(i, err)
    \/ \E i \in 1..MaxInFlight, ok \in BOOLEAN : symbolsDone(i, ok)

SpecData == InitData /\ [][NextData]_vars

(***************************************************************************)
(* StockComparisonComponent: the autocomplete.  Text is a sequence of      *)
(* one-character strings.                                                  *)
(***************************************************************************)
REL      == <<"R", "E", "L">>
RELI     == <<"R", "E", "L", "I">>
RELIANCE == <<"R", "E", "L", "I", "A", "N", "C", "E">>
TCS      == <<"T", "C", "S">>

\* what the symbols field may hold after an input event
Inputs ==
    { <<>>, REL, RELI, TCS \o <<",">>, TCS \o <<",", " ">>, TCS \o <<",">> \o REL }

\* what /stocks/search may return
SearchResults == { <<>>, <<RELIANCE>> }

\* the length of a clock tick in ms
Ticks == {100}

FirstIndex(s, c) == CHOOSE i \in 1..Len(s) : s[i] = c /\ \A j \in 1..(i - 1) : s[j] # c

\* String.prototype.split(',')
RECURSIVE Split(_)
Split(s) ==
    IF ~Includes(s, ",") THEN <<s>>
    ELSE LET i == FirstIndex(s, ",")
         IN <<SubSeq(s, 1, i - 1)>> \o Split(SubSeq(s, i + 1, Len(s)))

RECURSIVE TrimStart(_)
TrimStart(s) == IF s # <<>> /\ Head(s) = " " THEN TrimStart(Tail(s)) ELSE s

RECURSIVE TrimEnd(_)
TrimEnd(s) ==
    IF s # <<>> /\ s[Len(s)] = " " THEN TrimEnd(SubSeq(s, 1, Len(s) - 1)) ELSE s

\* String.prototype.trim()
Trim(s) == TrimEnd(TrimStart(s))

\* Array.prototype.join(', ')
RECURSIVE Join(_)
Join(parts) ==
    IF parts = <<>> THEN <<>>
    ELSE IF Len(parts) = 1 THEN parts[1]
    ELSE parts[1] \o <<",", " ">> \o Join(Tail(parts))

MapTrim(parts) == [i \in 1..Len(parts) |-> Trim(parts[i])]
NonEmpty(t) == t # <<>>

\* onSymbolInput: parts[parts.length - 1].trim()
LastPart(value) == LET parts == Split(value) IN Trim(parts[Len(parts)])

DebounceMs == 300
HideDelayMs == 200

\* faulty variant of DebounceDue: the quiet period is that of the blur timer
DebounceDueEarly == debounceAt + 200

\* debounceTime(300): when the waiting value is due
DebounceDue == debounceAt + DebounceMs

\* the input is bound to symbols; the input event calls onSymbolInput, which
\* hands the last part to the search subject, where debounceTime restarts
onSymbolInput(value) ==
    /\ view = "stocks"
    /\ focused
    /\ value # symbols
    /\ Len(keys) < MaxKeys
    /\ symbols' = value
    /\ debounceValue' = Some(LastPart(value))
    /\ debounceAt' = now
    /\ keys' = Append(keys, [v |-> value, at |-> now])
    /\ lastOp' = Op("onSymbolInput", "", 0)
    /\ UNCHANGED <<view, compVars, foVars, annVars, cmpVars, authVars, inflight,
                   suggestions, showSuggestions, now, lastQuery, hideTimers,
                   focused, pressed, issued>>

\* the clock advances, but not past a timer that is due
tick(d) ==
    /\ view = "stocks"
    /\ now \div d < MaxTicks
    /\ debounceValue # NoData => now + d <= DebounceDue
    /\ \A t \in hideTimers : now + d <= t
    /\ now' = now + d
    /\ lastOp' = Op("tick", "", 0)
    /\ UNCHANGED <<view, compVars, foVars, annVars, cmpVars, authVars, inflight,
                   symbols, suggestions, showSuggestions, debounceValue, debounceAt,
                   lastQuery, hideTimers, focused, pressed, keys, issued>>

\* the debounce timer fires: distinctUntilChanged drops a repeated query;
\* the subscriber fetches suggestions for a query of one character or more
\* and empties the list otherwise
debounceFire ==
    /\ view = "stocks"
    /\ debounceValue # NoData
    /\ now >= DebounceDue
    /\ debounceValue' = NoData
    /\ LET query == debounceValue[1]
       IN IF lastQuery = Some(query)
          THEN UNCHANGED <<lastQuery, inflight, issued, suggestions>>
          ELSE /\ lastQuery' = Some(query)
               /\ IF Len(query) >= 1
                  THEN /\ inflight' = Append(inflight, Request("search", query, <<>>))
                       /\ issued' = Append(issued, [q |-> query, at |-> now])
                       /\ UNCHANGED suggestions
                  ELSE /\ suggestions' = <<>>
                       /\ UNCHANGED <<inflight, issued>>
    /\ lastOp' = Op("debounceFire", "", 0)
    /\ UNCHANGED <<view, compVars, foVars, annVars, cmpVars, authVars,
                   symbols, showSuggestions, now, debounceAt, hideTimers,
                   focused, pressed, keys>>

\* faulty variant of searchNext: the answer to a query that is no longer
\* the latest one is discarded
searchNextDiscardStale(i, results) ==
    /\ view = "stocks"
    /\ i \in 1..Len(inflight) /\ inflight[i].api = "search"
    /\ inflight' = RemoveAt(inflight, i)
    /\ IF lastQuery = Some(inflight[i].q)
       THEN suggestions' = results /\ showSuggestions' = (Len(results) > 0)
       ELSE UNCHANGED <<suggestions, showSuggestions>>
    /\ lastOp' = Received("searchNext", inflight[i], results)
    /\ UNCHANGED <<view, compVars, foVars, annVars, cmpVars, authVars,
                   symbols, now, debounceValue, debounceAt, lastQuery, hideTimers,
                   focused, pressed, keys, issued>>

\* fetchSuggestions, next
searchNext(i, results) ==
    /\ view = "stocks"
    /\ i \in 1..Len(inflight) /\ inflight[i].api = "search"
    /\ inflight' = RemoveAt(inflight, i)
    /\ suggestions' = results
    /\ showSuggestions' = (Len(results) > 0)
    /\ lastOp' = Received("searchNext", inflight[i], results)
    /\ UNCHANGED <<view, compVars, foVars, annVars, cmpVars, authVars,
                   symbols, now, debounceValue, debounceAt, lastQuery, hideTimers,
                   focused, pressed, keys, issued>>

\* fetchSuggestions, error
searchError(i, err) ==
    /\ view = "stocks"
    /\ i \in 1..Len(inflight) /\ inflight[i].api = "search"
    /\ inflight' = RemoveAt(inflight, i)
    /\ suggestions' = <<>>
    /\ showSuggestions' = FALSE
    /\ lastOp' = Done("searchError", inflight[i], err.status, err.detail)
    /\ UNCHANGED <<view, compVars, foVars, annVars, cmpVars, authVars,
                   symbols, now, debounceValue, debounceAt, lastQuery, hideTimers,
                   focused, pressed, keys, issued>>

\* the parts of the field that selectSuggestion keeps and changes
SelectedParts(field, symbol) ==
    LET parts == SelectSeq(MapTrim(Split(field)), NonEmpty)
    IN IF Len(parts) > 0
       THEN [parts EXCEPT ![Len(parts)] = symbol]
       ELSE <<symbol>>

selectSuggestion(symbol) ==
    /\ symbols' = Join(SelectedParts(symbols, symbol))
    /\ showSuggestions' = FALSE
    /\ suggestions' = <<>>

\* hideSuggestions: setTimeout(..., 200)
hideSuggestions == hideTimers' = hideTimers \cup {now + HideDelayMs}

\* the input gets the focus
focusInput ==
    /\ view = "stocks"
    /\ ~focused /\ pressed = NoData
    /\ focused' = TRUE
    /\ lastOp' = Op("focus", "", 0)
    /\ UNCHANGED <<view, compVars, foVars, annVars, cmpVars, authVars, inflight,
                   symbols, suggestions, showSuggestions, now, debounceValue,
                   debounceAt, lastQuery, hideTimers, pressed, keys, issued>>

\* the focus leaves the input for another control: (blur) calls hideSuggestions
blurInput ==
    /\ view = "stocks"
    /\ focused /\ pressed = NoData
    /\ focused' = FALSE
    /\ hideSuggestions
    /\ lastOp' = Op("blur", "", 0)
    /\ UNCHANGED <<view, compVars, foVars, annVars, cmpVars, authVars, inflight,
                   symbols, suggestions, showSuggestions, now, debounceValue,
                   debounceAt, lastQuery, pressed, keys, issued>>

\* the mouse button goes down on a suggestion of the visible list: the
\* input, if it had the focus, blurs; the click follows when the button is
\* released
mouseDown(symbol) ==
    /\ view = "stocks"
    /\ pressed = NoData
    /\ showSuggestions /\ Includes(suggestions, symbol)
    /\ pressed' = Some([symbol |-> symbol, at |-> now, blurred |-> focused])
    /\ focused' = FALSE
    /\ IF focused THEN hideSuggestions ELSE UNCHANGED hideTimers
    /\ lastOp' = Op("mouseDown", "", 0)
    /\ UNCHANGED <<view, compVars, foVars, annVars, cmpVars, authVars, inflight,
                   symbols, suggestions, showSuggestions, now, debounceValue,
                   debounceAt, lastQuery, keys, issued>>

\* the button is released: the click reaches selectSuggestion if the
\* suggestion is still displayed, and is lost otherwise
click ==
    /\ view = "stocks"
    /\ pressed # NoData
    /\ pressed' = NoData
    /\ IF showSuggestions /\ Includes(suggestions, pressed[1].symbol)
       THEN /\ selectSuggestion(pressed[1].symbol)
            /\ lastOp' = Op("selectSuggestion", "", 0)
       ELSE /\ UNCHANGED <<symbols, showSuggestions, suggestions>>
            /\ lastOp' = Op("clickLost", "", 0)
    /\ UNCHANGED <<view, compVars, foVars, annVars, cmpVars, authVars, inflight,
                   now, debounceValue, debounceAt, lastQuery, hideTimers, focused,
                   keys, issued>>

\* the timer of hideSuggestions fires
hideFire(t) ==
    /\ view = "stocks"
    /\ t \in hideTimers /\ t <= now
    /\ hideTimers' = hideTimers \ {t}
    /\ showSuggestions' = FALSE
    /\ lastOp' = Op("hideFire", "", t)
    /\ UNCHANGED <<view, compVars, foVars, annVars, cmpVars, authVars, inflight,
                   symbols, suggestions, now, debounceValue, debounceAt, lastQuery,
                   focused, pressed, keys, issued>>

\* the failures of /stocks/search that are served
SearchErrors == { e \in HttpErrors : e.detail = Undef }

\* StockComparisonComponent once loadSymbols has completed
InitAuto ==
    /\ view = "stocks"
    /\ activeTab = "all" /\ loading = FALSE /\ error = Null
    /\ inflight = <<>>
    /\ date1 = "2024-03-27" /\ date2 = "2024-03-28"
    /\ comparison = Null /\ availableSymbols = <<"RELIANCE", "TCS">>
    /\ FOFields /\ AnnFields /\ AutoFields /\ SessionEstablished
    /\ lastOp = Done("symbolsDone", Request("symbols", "", <<>>), 200, Undef)

NextAuto ==
    \/ \E value \in Inputs : onSymbolInput(value)
    \/ \E d \in Ticks : tick(d)
    \/ debounceFire
    \/ \E i \in 1..MaxKeys, results \in SearchResults : searchNext(i, results)
    \/ \E i \in 1..MaxKeys, err \in SearchErrors : searchError(i, err)
    \/ focusInput
    \/ blurInput
    \/ \E symbol \in {RELIANCE} : mouseDown(symbol)
    \/ click
    \/ \E t \in hideTimers : hideFire(t)

SpecAuto == InitAuto /\ [][NextAuto]_vars

\* the debounce pipeline alone: the input keeps the focus
InitDebounce ==
    /\ view = "stocks"
    /\ activeTab = "all" /\ loading = FALSE /\ error = Null
    /\ inflight = <<>>
    /\ date1 = "2024-03-27" /\ date2 = "2024-03-28"
    /\ comparison = Null /\ availableSymbols = <<"RELIANCE", "TCS">>
    /\ symbols = <<>> /\ suggestions = <<>> /\ showSuggestions = FALSE
    /\ now = 0 /\ debounceValue = NoData /\ debounceAt = 0 /\ lastQuery = NoData
    /\ hideTimers = {} /\ focused = TRUE /\ pressed = NoData
    /\ keys = <<>> /\ issued = <<>>
    /\ FOFields /\ AnnFields /\ SessionEstablished
    /\ lastOp = Op("focus", "", 0)

NextDebounce ==
    \/ \E value \in Inputs : onSymbolInput(value)
    \/ \E d \in Ticks : tick(d)
    \/ debounceFire
    \/ \E i \in 1..MaxKeys, results \in SearchResults : searchNext(i, results)
    \/ \E i \in 1..MaxKeys, err \in SearchErrors : searchError(i, err)

SpecDebounce == InitDebounce /\ [][NextDebounce]_vars

\* the two kinds of request of StockComparisonComponent that a newer
\* request supersedes, every one answered successfully
NextRequests ==
    \/ \E value \in {REL, RELI} : onSymbolInput(value)
    \/ \E d \in Ticks : tick(d)
    \/ debounceFire
    \/ \E i \in 1..(MaxKeys + MaxInFlight), results \in SearchResults : searchNext(i, results)
    \/ compareStocks
    \/ \E i \in 1..(MaxKeys + MaxInFlight), data \in Comparisons : compareNext(i, data)

SpecRequests == InitDebounce /\ [][NextRequests]_vars

(***************************************************************************)
(* AuthService and CallbackComponent.                                      *)
(***************************************************************************)
Users == {"userA"}

\* faulty variant of logout: returns early when no credential is stored
logoutOnlyWithToken(base) ==
    IF Truthy(token)
    THEN /\ inflight' = Append(base, Request("logout", "", <<>>))
         /\ token' = Null
         /\ currentUser' = Null
         /\ navigated' = "/login"
    ELSE inflight' = base /\ UNCHANGED authVars

\* logout(), called with base the requests in flight when it starts
logout(base) ==
    /\ inflight' = IF Truthy(token) THEN Append(base, Request("logout", "", <<>>))
                   ELSE base
    /\ token' = Null
    /\ currentUser' = Null
    /\ navigated' = "/login"

\* the sign-out control of the layout calls authService.logout()
signOut ==
    /\ view = "stocks"
    /\ Truthy(token) => CanIssue
    /\ logout(inflight)
    /\ lastOp' = Op("logout", "", 0)
    /\ UNCHANGED <<view, compVars, foVars, annVars, cmpVars, autoVars>>

\* the POST of logout() is subscribed to without callbacks: neither its
\* success nor its failure is handled
logoutDone(i, status) ==
    /\ i \in 1..Len(inflight) /\ inflight[i].api = "logout"
    /\ inflight' = RemoveAt(inflight, i)
    /\ lastOp' = Done("logoutDone", inflight[i], status, Undef)
    /\ UNCHANGED <<view, compVars, foVars, annVars, cmpVars, autoVars, authVars>>

\* handleCallback up to the subscription
handleCallback(tok) ==
    /\ token' = tok
    /\ inflight' = Append(inflight, Request("me", "callback", <<>>))
    /\ UNCHANGED <<currentUser, navigated, error>>

\* CallbackComponent.ngOnInit with the query parameters of the redirect
callbackNgOnInit(tok, err) ==
    /\ view = "callback"
    /\ lastOp.op = "constructor"
    /\ CanIssue
    /\ IF Truthy(err) THEN error' = err /\ UNCHANGED <<authVars, inflight>>
       ELSE IF Truthy(tok) THEN handleCallback(tok)
       ELSE /\ error' = "No authentication token received"
            /\ UNCHANGED <<authVars, inflight>>
    /\ lastOp' = Op("callbackNgOnInit", tok, 0)
    /\ UNCHANGED <<view, loading, activeTab, foVars, annVars, cmpVars, autoVars>>

\* fetchCurrentUser succeeds: tap publishes the user; the subscriber of
\* handleCallback navigates, that of loadUserFromToken has no next callback
meNext(i, user) ==
    /\ i \in 1..Len(inflight) /\ inflight[i].api = "me"
    /\ inflight' = RemoveAt(inflight, i)
    /\ currentUser' = user
    /\ navigated' = IF inflight[i].q = "callback" THEN "/dashboard" ELSE navigated
    /\ lastOp' = Done("meNext", inflight[i], 200, Undef)
    /\ UNCHANGED <<view, compVars, foVars, annVars, cmpVars, autoVars, token>>

\* fetchCurrentUser fails: the error callback of loadUserFromToken (startup)
\* or of handleCallback (callback)
meError(i, err) ==
    /\ i \in 1..Len(inflight) /\ inflight[i].api = "me"
    /\ IF inflight[i].q = "startup" /\ err.status # 401
       THEN inflight' = RemoveAt(inflight, i) /\ UNCHANGED authVars
       ELSE logout(RemoveAt(inflight, i))
    /\ lastOp' = Done("meError", inflight[i], err.status, err.detail)
    /\ UNCHANGED <<view, compVars, foVars, annVars, cmpVars, autoVars>>

\* the page loaded on /auth/callback: the AuthService constructor has called
\* loadUserFromToken with what the token store held
InitCallback ==
    /\ view = "callback"
    /\ token \in {Null, "tokA"}
    /\ currentUser = Null /\ navigated = Null
    /\ inflight = IF Truthy(token) THEN <<Request("me", "startup", <<>>)>> ELSE <<>>
    /\ activeTab = "" /\ loading = FALSE /\ error = Null
    /\ FOFields /\ AnnFields /\ CmpFields /\ AutoFields
    /\ lastOp = Op("constructor", "", 0)

\* the page loaded on /stocks with a stored credential: loadUserFromToken
\* and the ngOnInit of StockComparisonComponent have run
InitReload ==
    /\ view = "stocks"
    /\ token = "tokA" /\ currentUser = Null /\ navigated = Null
    /\ inflight = <<Request("me", "startup", <<>>), Request("symbols", "", <<>>)>>
    /\ activeTab = "all" /\ loading = FALSE /\ error = Null
    /\ date1 = "2024-03-27" /\ date2 = "2024-03-28"
    /\ comparison = Null /\ availableSymbols = <<>>
    /\ FOFields /\ AnnFields /\ AutoFields
    /\ lastOp = Op("constructor", "", 0)

InitAuth == InitCallback \/ InitReload

Statuses == {200, 0, 401, 500}

NextAuth ==
    \/ \E tok \in {Null, "tokB"}, err \in {Null, "access_denied"} : callbackNgOnInit(tok, err)
    \/ \E i \in 1..MaxInFlight, user \in Users : meNext(i, user)
    \/ \E i \in 1..MaxInFlight, err \in HttpErrors : meError(i, err)
    \/ signOut
    \/ \E i \in 1..MaxInFlight, status \in Statuses : logoutDone(i, status)
    \/ compareStocks
    \/ \E i \in 1..MaxInFlight, data \in Comparisons : compareNext(i, data)
    \/ \E i \in 1..MaxInFlight, err \in HttpErrors : compareError(i, err)
    \/ \E i \in 1..MaxInFlight, ok \in BOOLEAN : symbolsDone(i, ok)

SpecAuth == InitAuth /\ [][NextAuth]_vars

(***************************************************************************)
(* Properties of the F&O filter (SpecFO).                                  *)
(***************************************************************************)
\* C1: in every reachable state of the F&O filter, a non-empty
\* selectedSymbol is a member of the distinct-symbol set and a non-empty
\* selectedExpiry is a member of the distinct-expiry set of that symbol.
C1_SelectionInSets ==
    /\ selectedSymbol # "" => Includes(uniqueSymbols, selectedSymbol)
    /\ selectedExpiry # "" => Includes(uniqueExpiries, selectedExpiry)

\* the symbol of a row as the distinct-symbol set reads it: the primary
\* ticker, the underlying only when the ticker is absent
RowsOf(items, sel, selX) ==
    LET Keep(item) == ItemSymbol(item) = sel /\ item.XpryDt = selX
    IN SelectSeq(items, Keep)

\* C2: after a successful snapshot load, a manual symbol change or a manual
\* expiry change, filteredFutures and filteredOptions are exactly the rows
\* of the snapshot whose symbol is selectedSymbol and whose expiry is
\* selectedExpiry.
C2_FilteredExact ==
    lastOp.op \in {"niftyNext", "onSymbolChange", "onExpiryChange"} =>
        /\ niftyData # NoData
        /\ filteredFutures = RowsOf(niftyData[1].futures, selectedSymbol, selectedExpiry)
        /\ filteredOptions = RowsOf(niftyData[1].options, selectedSymbol, selectedExpiry)

\* C11: a snapshot load that yields an empty distinct-symbol set, or a
\* snapshot fetch that fails, leaves selectedSymbol, selectedExpiry,
\* filteredFutures and filteredOptions empty; on failure the error is set;
\* the step issues no further request.
C11_ResetOnEmptyOrFailure ==
    [][(\/ lastOp'.op = "niftyError"
        \/ lastOp'.op = "niftyNext" /\ uniqueSymbols' = <<>>) =>
          /\ selectedSymbol' = "" /\ selectedExpiry' = ""
          /\ filteredFutures' = <<>> /\ filteredOptions' = <<>>
          /\ lastOp'.op = "niftyError" => Truthy(error')
          /\ Len(inflight') = Len(inflight) - 1]_vars

\* the distinct-symbol set of a snapshot: the symbols of its rows, a row
\* without a symbol contributing none
DistinctSymbols(data) ==
    { ItemSymbol(AllItems(data)[i]) : i \in 1..Len(AllItems(data)) } \ {""}

\* the symbol the priority order picks from a non-empty set D
PreferredSymbol(prev, D) ==
    IF prev \in D THEN prev
    ELSE IF "NIFTY" \in D THEN "NIFTY"
    ELSE IF "BANKNIFTY" \in D THEN "BANKNIFTY"
    ELSE CHOOSE s \in D : \A t \in D : CodeUnitOrder[s] <= CodeUnitOrder[t]

\* C12 as stated: after processing a snapshot that has at least one row,
\* selectedSymbol is a member of the distinct-symbol set: the previous
\* selection if a member, else NIFTY, else BANKNIFTY, else the
\* alphabetically first distinct symbol.
C12_Original ==
    [][(lastOp'.op = "niftyNext" /\ Len(AllItems(niftyData'[1])) > 0) =>
          /\ selectedSymbol' \in DistinctSymbols(niftyData'[1])
          /\ selectedSymbol' = PreferredSymbol(selectedSymbol, DistinctSymbols(niftyData'[1]))]_vars

\* C12 as amended: the same, for a snapshot of which at least one row has
\* a symbol; uniqueSymbols lists the distinct-symbol set in ascending order.
C12_DefaultSymbol ==
    [][(lastOp'.op = "niftyNext" /\ DistinctSymbols(niftyData'[1]) # {}) =>
          LET D == DistinctSymbols(niftyData'[1])
          IN /\ { uniqueSymbols'[i] : i \in 1..Len(uniqueSymbols') } = D
             /\ \A i \in 1..(Len(uniqueSymbols') - 1) :
                    CodeUnitOrder[uniqueSymbols'[i]] < CodeUnitOrder[uniqueSymbols'[i + 1]]
             /\ selectedSymbol' \in D
             /\ selectedSymbol' = PreferredSymbol(selectedSymbol, D)]_vars

\* ZEEL listed before ACC, no index among the symbols: ACC is selected
C12_Witness ==
    /\ lastOp.op = "niftyNext"
    /\ niftyData # NoData
    /\ Len(niftyData[1].futures) = 2
    /\ niftyData[1].futures[1].TckrSymb = "ZEEL"
    /\ niftyData[1].futures[2].TckrSymb = "ACC"
    /\ uniqueSymbols = <<"ACC", "ZEEL">>
    /\ selectedSymbol = "ACC"

\* the expiries of the rows of a snapshot whose symbol is sel; no row
\* matches an empty selection
SymbolExpiries(data, sel) ==
    { AllItems(data)[i].XpryDt :
        i \in { j \in 1..Len(AllItems(data)) :
                  sel # "" /\ ItemSymbol(AllItems(data)[j]) = sel } }

\* C13: after a snapshot load or a manual symbol change, uniqueExpiries
\* holds exactly the expiries of the rows whose symbol is selectedSymbol, in
\* strictly ascending calendar order, and selectedExpiry is the previous
\* selection if listed and otherwise the earliest expiry; a manual expiry
\* change leaves uniqueExpiries and selectedSymbol unchanged and re-filters.
C13_ExpiriesSorted ==
    [][/\ lastOp'.op \in {"niftyNext", "onSymbolChange"} =>
             /\ { uniqueExpiries'[i] : i \in 1..Len(uniqueExpiries') }
                   = SymbolExpiries(niftyData'[1], selectedSymbol')
             /\ \A i \in 1..(Len(uniqueExpiries') - 1) :
                    DateValue[uniqueExpiries'[i]] < DateValue[uniqueExpiries'[i + 1]]
             /\ selectedExpiry' =
                    IF Includes(uniqueExpiries', selectedExpiry) THEN selectedExpiry
                    ELSE IF uniqueExpiries' # <<>> THEN uniqueExpiries'[1] ELSE ""
       /\ lastOp'.op = "onExpiryChange" =>
             /\ UNCHANGED <<uniqueExpiries, selectedSymbol>>
             /\ filteredFutures' = FilterItems(niftyData[1].futures, selectedSymbol, selectedExpiry')
             /\ filteredOptions' = FilterItems(niftyData[1].options, selectedSymbol, selectedExpiry')]_vars

(***************************************************************************)
(* Properties of the data views (SpecData).                                *)
(***************************************************************************)
\* C5: compareStocks invoked while date1 or date2 is empty issues no
\* request, sets the validation error and leaves the previous comparison
\* and the loading flag unchanged; with both dates it issues the request.
C5_ValidationFailsFast ==
    [][lastOp'.op = "compareStocks" =>
          IF date1 = "" \/ date2 = ""
          THEN /\ error' = "Please select both dates"
               /\ UNCHANGED <<inflight, comparison, loading>>
          ELSE /\ Len(inflight') = Len(inflight) + 1
               /\ inflight'[Len(inflight')].api = "compare"]_vars

C5_Witness ==
    /\ lastOp.op = "compareStocks"
    /\ date1 # "" /\ date2 = ""
    /\ error = "Please select both dates"
    /\ comparison # Null
    /\ inflight = <<>>

DataErrorOps == {"compareError", "nseError", "bseError", "futuresError", "optionsError"}

Fallback(op) ==
    CASE op = "compareError" -> "Failed to fetch comparison data"
      [] op = "nseError"     -> "Failed to load NSE announcements"
      [] op = "bseError"     -> "Failed to load BSE announcements"
      [] op = "futuresError" -> "Failed to load futures data"
      [] op = "optionsError" -> "Failed to load options data"

\* the result data that the request handled by op loads
ResultData(op, cmp, nse, bse, fut, opt) ==
    CASE op = "compareError" -> <<cmp>>
      [] op = "nseError"     -> nse
      [] op = "bseError"     -> bse
      [] op = "futuresError" -> fut
      [] op = "optionsError" -> opt

OtherDataError == lastOp'.op \in DataErrorOps /\ lastOp'.status # 401

ErrorShown ==
    error' = IF lastOp'.detail \notin {Undef, ""} THEN lastOp'.detail
             ELSE Fallback(lastOp'.op)

\* C10 as stated: when a data request fails with a non-401 error, the error
\* message is the detail or else the fallback, and all other component
\* state, in particular the result data displayed before the request was
\* issued, is unchanged.
C10_Original ==
    [][OtherDataError =>
          /\ ErrorShown
          /\ ResultData(lastOp'.op, comparison', nseAnnouncements', bseAnnouncements',
                        futuresData', optionsData') = lastOp'.prev
          /\ UNCHANGED <<activeTab, foVars, annVars, cmpVars>>]_vars

\* C10 as amended: the error message is the detail or else the fallback, the
\* loading flag becomes false, and the failure leaves every other field of
\* the component as it was when the failure arrived.
C10_FailureFrame ==
    [][OtherDataError =>
          /\ ErrorShown
          /\ loading' = FALSE
          /\ UNCHANGED <<activeTab, foVars, annVars, cmpVars>>]_vars

C10_Witness ==
    /\ lastOp.op = "nseError" /\ lastOp.status = 500 /\ lastOp.detail = "boom"
    /\ error = "boom"
    /\ nseAnnouncements # <<>>
    /\ loading = FALSE

\* C16: in the F&O component the loading flag is true exactly while at
\* least one of the component's data requests is in flight.
C16_LoadingWhileInFlight ==
    view = "fo" =>
        (loading <=> \E i \in 1..Len(inflight) :
                        inflight[i].api \in {"nifty", "futures", "options"})

(***************************************************************************)
(* Properties of the session (SpecAuth).                                   *)
(***************************************************************************)
\* C3: a session fetch that fails with HTTP 401 removes the stored
\* credential and publishes no session; one that fails with any other
\* error leaves the stored credential and the published session as they
\* were, whether the fetch was issued at start-up or by the callback.
C3_FetchFailure ==
    [][lastOp'.op = "meError" =>
          IF lastOp'.status = 401
          THEN token' = Null /\ currentUser' = Null
          ELSE token' = token /\ currentUser' = currentUser]_vars

\* C8: after logout() the stored credential is absent, the published
\* session is null and the navigation to /login is requested, with or
\* without a stored credential; the notification is sent (when a credential
\* is stored) in the same step, and its completion changes none of these.
C8_LogoutClears ==
    [][/\ lastOp'.op = "logout" =>
             /\ token' = Null /\ currentUser' = Null /\ navigated' = "/login"
             /\ inflight' = IF token # Null
                            THEN Append(inflight, Request("logout", "", <<>>))
                            ELSE inflight
       /\ lastOp'.op = "logoutDone" => UNCHANGED authVars]_vars

C8_Witness ==
    /\ lastOp.op = "logoutDone" /\ lastOp.status = 500
    /\ token = Null /\ currentUser = Null /\ navigated = "/login"

AuthenticatedCallErrors ==
    {"meError", "compareError", "searchError", "niftyError", "futuresError",
     "optionsError", "nseError", "bseError"}

\* C9: whenever an authenticated backend call completes with HTTP 401,
\* afterwards the stored credential is absent and the published session
\* is null.
C9_UnauthorizedClears ==
    (lastOp.op \in AuthenticatedCallErrors /\ lastOp.status = 401) =>
        token = Null /\ currentUser = Null

(***************************************************************************)
(* Properties of the autocomplete (SpecDebounce, SpecAuto).                *)
(***************************************************************************)
\* the input event of which request n carries the last part: the latest one
\* before the request, 300 ms or more before it
Answers(n, k) ==
    /\ issued[n].at >= keys[k].at + 300
    /\ issued[n].q = LastPart(keys[k].v)
    /\ \A k2 \in (k + 1)..Len(keys) : keys[k2].at >= issued[n].at

TypedRelThenReli == Len(keys) = 2 /\ keys[1].v = REL /\ keys[2].v = RELI

\* C4: a suggestion request is issued only when 300 ms have passed with no
\* further input event, and carries the last comma-delimited part of the
\* most recent input; consecutive requests are at least 300 ms apart; "REL"
\* then "RELI" within 300 ms issues one request, for "RELI"; "REL", more
\* than 300 ms, then "RELI" issues two.
C4_Debounced ==
    /\ \A n \in 1..Len(issued) : \E k \in 1..Len(keys) : Answers(n, k)
    /\ \A n \in 1..(Len(issued) - 1) : issued[n + 1].at - issued[n].at >= 300
    /\ (TypedRelThenReli /\ keys[2].at - keys[1].at < 300) =>
          IF debounceValue # NoData THEN issued = <<>>
          ELSE issued = <<[q |-> RELI, at |-> keys[2].at + 300]>>
    /\ (TypedRelThenReli /\ keys[2].at - keys[1].at > 300 /\ debounceValue = NoData) =>
          issued = <<[q |-> REL, at |-> keys[1].at + 300],
                     [q |-> RELI, at |-> keys[2].at + 300]>>

C4_Witness ==
    /\ TypedRelThenReli
    /\ keys[2].at - keys[1].at = 200
    /\ issued = <<[q |-> RELI, at |-> keys[2].at + 300]>>

\* C14: in every reachable state of the autocomplete the suggestion list
\* is shown only if it is non-empty: it is never shown, or left showing,
\* while empty.
C14_ShownOnlyNonEmpty == showSuggestions => suggestions # <<>>

\* the in-flight requests of kind api, oldest first
InFlightOf(api) == LET Is(r) == r.api = api IN SelectSeq(inflight, Is)

\* C15: superseded requests are not cancelled: issuing a request leaves
\* the requests in flight in place, and every response that is delivered,
\* that of an earlier request after that of a later one included, becomes
\* the state of the component (suggestions, comparison).
C15_StaleOverwrites ==
    [][/\ lastOp'.op \in {"debounceFire", "compareStocks"} =>
             SubSeq(inflight', 1, Len(inflight)) = inflight
       /\ lastOp'.op = "searchNext" =>
             /\ suggestions' = lastOp'.data[1]
             /\ showSuggestions' = (lastOp'.data[1] # <<>>)
             /\ Len(InFlightOf("search")') = Len(InFlightOf("search")) - 1
       /\ lastOp'.op = "compareNext" =>
             /\ comparison' = lastOp'.data[1]
             /\ Len(InFlightOf("compare")') = Len(InFlightOf("compare")) - 1]_vars

\* the requests for REL and for RELI were in flight together and the answer
\* to REL, delivered last, is what the component holds
C15_Witness ==
    /\ Len(issued) = 2 /\ issued[1].q = REL /\ issued[2].q = RELI
    /\ InFlightOf("search") = <<>>
    /\ lastOp.op = "searchNext" /\ lastOp.arg = REL
    /\ lastOp.data = <<suggestions>>
    /\ suggestions = <<RELIANCE>> /\ showSuggestions


EarlierTokens(field) ==
    LET parts == MapTrim(Split(field))
    IN SelectSeq(SubSeq(parts, 1, Len(parts) - 1), NonEmpty)

\* C6: for every content of the symbols field, selectSuggestion replaces
\* only the last comma-delimited part with the chosen symbol, keeps every
\* earlier part in its order, and hides the suggestion list.
C6_ReplacesLastPart ==
    [][lastOp'.op = "selectSuggestion" =>
          /\ MapTrim(Split(symbols')) = EarlierTokens(symbols) \o <<pressed[1].symbol>>
          /\ ~showSuggestions']_vars

\* C7: when the input blurs while the suggestions are visible and the click
\* on a suggestion is still to be delivered, the hide that this blur
\* scheduled does not execute before the click.
C7_HideAfterClick ==
    (lastOp.op = "hideFire" /\ pressed # NoData /\ pressed[1].blurred) =>
        lastOp.status # pressed[1].at + HideDelayMs

====
